---------------------------- MODULE Spec2Model ----------------------------
(***************************************************************************)
(* A model of the aurora_asi download and load pipeline:                   *)
(*   - search_hrefs and download of asi/download/download_rego.py          *)
(*   - the Imager class of asilib/imager.py                                *)
(* Text (urls, directory entries, patterns, messages) is a sequence of     *)
(* one-character strings, so that substring search, case folding and       *)
(* number formatting are computed the way the Python code computes them.   *)
(***************************************************************************)
EXTENDS Integers, Sequences, FiniteSets, TLC

VARIABLES
    \* ---- one call of search_hrefs (SpecSearch)
    s_pc, s_url, s_anchors, s_pattern, s_out,
    \* ---- download() of download_rego.py (SpecDownload)
    dl_pc, dl_day, dl_station, dl_minute, dl_url, dl_file_names, dl_i, dl_err,
    day_listing, hour_listing,
    fs_root, fs_rego, fs_files,
    dl_calls, dl_reqs, dl_resps, dl_prev,
    \* ---- the Imager object of imager.py (SpecImager)
    im_pc, im_attrs, im_array, im_array_attributes, im_stations, im_time_range,
    im_data, im_da, im_method, im_arg, im_iter, im_i, im_result, im_err,
    im_calls, im_gf

search_vars == <<s_pc, s_url, s_anchors, s_pattern, s_out>>
remote_vars == <<day_listing, hour_listing>>
fs_vars == <<fs_root, fs_rego, fs_files>>
dl_vars == <<dl_pc, dl_day, dl_station, dl_minute, dl_url, dl_file_names, dl_i,
             dl_err, remote_vars, fs_vars, dl_calls, dl_reqs, dl_resps, dl_prev>>
im_vars == <<im_pc, im_attrs, im_array, im_array_attributes, im_stations,
             im_time_range, im_data, im_da, im_method, im_arg, im_iter, im_i,
             im_result, im_err, im_calls, im_gf>>
vars == <<search_vars, dl_vars, im_vars>>

(***************************************************************************)
(* Bounds of the model.                                                    *)
(***************************************************************************)
\* longest directory listing explored for one search_hrefs call
MaxAnchors == 3
\* most files in the hour directory of the remote archive
MaxListing == 2
\* number of download() calls in one behaviour
MaxCalls == 2
\* number of Imager.download() and Imager.load() calls on one Imager
MaxImCalls == 2

(***************************************************************************)
(* Text helpers: str.lower, the `in` operator on str, str(int), zfill.     *)
(***************************************************************************)
UPPERS ==
    <<"A","B","C","D","E","F","G","H","I","J","K","L","M","N","O","P","Q","R","S","T","U","V","W","X","Y","Z">>
LOWERS ==
    <<"a","b","c","d","e","f","g","h","i","j","k","l","m","n","o","p","q","r","s","t","u","v","w","x","y","z">>
DIGITS ==
    <<"0","1","2","3","4","5","6","7","8","9">>

\* one character of str.lower()
LowerChar(c) ==
    IF \E i \in 1..26 : UPPERS[i] = c
    THEN LOWERS[CHOOSE i \in 1..26 : UPPERS[i] = c]
    ELSE c

\* one character of str.upper()
UpperChar(c) ==
    IF \E i \in 1..26 : LOWERS[i] = c
    THEN UPPERS[CHOOSE i \in 1..26 : LOWERS[i] = c]
    ELSE c

\* str.lower()
Lower(s) == [i \in 1..Len(s) |-> LowerChar(s[i])]

\* str.upper()
Upper(s) == [i \in 1..Len(s) |-> UpperChar(s[i])]

\* Python's `pat in s` on str: pat occurs in s as a contiguous run
StrIn(pat, s) ==
    \E i \in 0..(Len(s) - Len(pat)) : SubSeq(s, i + 1, i + Len(pat)) = pat

\* str(n) for n >= 0
RECURSIVE Str(_)
Str(n) == IF n < 10 THEN <<DIGITS[n + 1]>> ELSE Str(n \div 10) \o <<DIGITS[(n % 10) + 1]>>

\* str.zfill(width)
RECURSIVE zfill(_, _)
zfill(s, width) == IF Len(s) >= width THEN s ELSE zfill(<<"0">> \o s, width)

(***************************************************************************)
(* search_hrefs (download_rego.py, lines 80-111).                          *)
(* anchors is the text of each <a href=...> of the page fetched from url,  *)
(* in page order (soup.find_all('a', href=True)).                          *)
(***************************************************************************)
PARENT ==
    <<".",".","/">>
MSG_A ==
    <<"T","h","e"," ","u","r","l"," ">>
MSG_B ==
    <<" ","d","o","e","s"," ","n","o","t"," ","c","o","n","t","a","i","n"," ","a","n","y"," ","h","y","p","e","r"," ","r","e","f","e","r","e","n","c","e","s"," ","c","o","n","t","a","i","n","i","n","g"," ","t","h","e"," ","s","e","a","r","c","h","_","p","a","t","t","e","r","n","=","\"">>
MSG_C ==
    <<"\"",".">>

NoError == [type |-> "none", msg |-> <<>>]

\* the f-string of lines 109-110
NotADirectoryError(url, search_pattern) ==
    [type |-> "NotADirectoryError",
     msg  |-> MSG_A \o url \o MSG_B \o search_pattern \o MSG_C]

\* the condition of line 106 with the '../' test dropped
HrefMatches_noparent(text, search_pattern) ==
    StrIn(Lower(search_pattern), Lower(text))

\* the condition of line 106
HrefMatches(text, search_pattern) ==
    (text # PARENT) /\ StrIn(Lower(search_pattern), Lower(text))

\* the loop of lines 105-107
RECURSIVE MatchedHrefs(_, _)
MatchedHrefs(anchors, search_pattern) ==
    IF anchors = <<>> THEN <<>>
    ELSE (IF HrefMatches(Head(anchors), search_pattern)
          THEN <<Head(anchors)>> ELSE <<>>)
         \o MatchedHrefs(Tail(anchors), search_pattern)

\* search_hrefs without the check of line 108: an empty list is returned
search_hrefs_noraise(url, anchors, search_pattern) ==
    [raised |-> FALSE, hrefs |-> MatchedHrefs(anchors, search_pattern), err |-> NoError]

\* search_hrefs: raised tells whether line 109 raised, hrefs is the return value
search_hrefs(url, anchors, search_pattern) ==
    LET matched_hrefs == MatchedHrefs(anchors, search_pattern)
    IN  IF Len(matched_hrefs) = 0
        THEN [raised |-> TRUE, hrefs |-> <<>>,
              err |-> NotADirectoryError(url, search_pattern)]
        ELSE [raised |-> FALSE, hrefs |-> matched_hrefs, err |-> NoError]

(***************************************************************************)
(* Directory entries, urls and patterns the model draws its inputs from.   *)
(***************************************************************************)
BASE_URL ==
    <<"h","t","t","p","s",":","/","/","d","a","t","a",".","p","h","y","s",".","u","c","a","l","g","a","r","y",".","c","a","/","s","o","r","t","_","b","y","_","p","r","o","j","e","c","t","/","G","O","-","C","a","n","a","d","a","/","R","E","G","O","/","s","t","r","e","a","m","0","/">>
E_luck_dir ==
    <<"l","u","c","k","_","r","e","g","o","-","6","4","9","/">>
E_LUCK_dir ==
    <<"L","U","C","K","_","R","E","G","O","-","6","5","0","/">>
E_gill_dir ==
    <<"g","i","l","l","_","r","e","g","o","-","6","5","2","/">>
F_0510 ==
    <<"2","0","1","7","0","4","1","3","_","0","5","1","0","_","l","u","c","k","_","r","e","g","o","-","6","4","9","_","6","3","0","0",".","p","g","m",".","g","z">>
F_0510b ==
    <<"2","0","1","7","0","4","1","3","_","0","5","1","0","_","l","u","c","k","_","r","e","g","o","-","6","4","9","_","f","u","l","l",".","p","g","m",".","g","z">>
F_0511 ==
    <<"2","0","1","7","0","4","1","3","_","0","5","1","1","_","l","u","c","k","_","r","e","g","o","-","6","4","9","_","6","3","0","0",".","p","g","m",".","g","z">>

\* sequences over S of length at most n
SeqUpTo(S, n) == UNION {[1..k -> S] : k \in 0..n}

SearchAnchors == {PARENT, E_luck_dir, E_LUCK_dir, E_gill_dir}
SearchPatterns ==
    { <<>>, <<"l","u","c","k">>, <<"L","u","c","K">>, <<"g","i","l","l">>,
      <<"/">>, <<".",".">>, <<"a","t","h","a">> }
SearchUrls == { BASE_URL, BASE_URL \o <<"2","0","1","7","/">> }

(***************************************************************************)
(* download (download_rego.py, lines 20-77).                               *)
(*                                                                         *)
(* The remote archive is the listing page of the day directory and the     *)
(* listing page of the hour directory download resolves; it does not       *)
(* change during a behaviour.  Each GET is answered by the archive's page  *)
(* or file (status 200), by a non-success response (status 404, whose body *)
(* is the server's error page), or fails with a ConnectionError.           *)
(* A local file's content is the sequence of bodies written to it.         *)
(***************************************************************************)
S_LUCK ==
    <<"L","U","C","K">>
DAYTEXT_0511 ==
    <<"2","0","1","7","-","0","4","-","1","3"," ","0","5",":","1","1">>
D_0510 == [year |-> 2017, month |-> 4, day |-> 13, hour |-> 5, minute |-> 10]
NoDay == [year |-> 0, month |-> 0, day |-> 0, hour |-> 0, minute |-> 0]

\* the day argument: a datetime, or text for dateutil.parser.parse
DayInputs ==
    { [is_str |-> FALSE, text |-> <<>>, dt |-> D_0510],
      [is_str |-> TRUE, text |-> DAYTEXT_0511, dt |-> NoDay] }
Stations == { S_LUCK }

DayListings ==
    { <<PARENT>>,
      <<PARENT, E_gill_dir, E_luck_dir>>,
      <<PARENT, E_LUCK_dir, E_luck_dir>> }
HourFiles == {F_0510, F_0510b, F_0511}
HourListings == { <<PARENT>> \o fl : fl \in SeqUpTo(HourFiles, MaxListing) }

\* the value of a run of decimal digits
RECURSIVE Num(_)
Num(ds) ==
    IF ds = <<>> THEN 0
    ELSE 10 * Num(SubSeq(ds, 1, Len(ds) - 1))
         + (CHOOSE v \in 0..9 : DIGITS[v + 1] = ds[Len(ds)])

\* dateutil.parser.parse on 'YYYY-MM-DD HH:MM' text (line 49)
ParseDay(text) ==
    [year |-> Num(SubSeq(text, 1, 4)), month |-> Num(SubSeq(text, 6, 7)),
     day |-> Num(SubSeq(text, 9, 10)), hour |-> Num(SubSeq(text, 12, 13)),
     minute |-> Num(SubSeq(text, 15, 16))]

\* lines 48-49
NormalizeDay(day) == IF day.is_str THEN ParseDay(day.text) ELSE day.dt

\* line 51
DayUrl(day) ==
    BASE_URL \o Str(day.year) \o <<"/">> \o zfill(Str(day.month), 2) \o <<"/">>
             \o zfill(Str(day.day), 2) \o <<"/">>

\* line 56
HourUrl(url, station_url, day) ==
    url \o station_url[1] \o <<"u","t">> \o zfill(Str(day.hour), 2) \o <<"/">>

\* day.strftime('%Y%m%d_%H%M') (line 64)
Stamp(day) ==
    zfill(Str(day.year), 4) \o zfill(Str(day.month), 2) \o zfill(Str(day.day), 2)
        \o <<"_">> \o zfill(Str(day.hour), 2) \o zfill(Str(day.minute), 2)

\* the pattern of the hour-directory search (lines 64 and 71)
FilePattern(day, download_minute) == IF download_minute THEN Stamp(day) ELSE <<>>

\* a minute download that fetches every match instead of file_names[0]
FetchTargets_all(file_names, download_minute) == file_names

\* an hour download that stops before the last file
FetchTargets_short(file_names, download_minute) ==
    IF download_minute THEN <<file_names[1]>>
    ELSE SubSeq(file_names, 1, Len(file_names) - 1)

\* the files download fetches: file_names[0] (line 66) or all (line 73)
FetchTargets(file_names, download_minute) ==
    IF download_minute THEN <<file_names[1]>> ELSE file_names

\* the answers to a GET
OK == [exc |-> FALSE, status |-> 200]
NotFound == [exc |-> FALSE, status |-> 404]
ConnError == [exc |-> TRUE, status |-> 0]
Responses == {OK, NotFound, ConnError}

ConnectionError == [type |-> "ConnectionError", msg |-> <<>>]
FileNotFoundError_mkdir == [type |-> "FileNotFoundError", msg |-> <<"m","k","d","i","r">>]

\* request.content parsed by BeautifulSoup: the anchors of the page
Anchors(resp, listing) == IF resp.status = 200 THEN listing ELSE <<>>

\* r.content of a file GET
Body(resp, url) == [status |-> resp.status, url |-> url]

\* a content already on disk before the first call
OldBody == [status |-> 200, url |-> <<"o","l","d">>]

\* open(path, 'ab') in place of 'wb': the body is appended
WriteFile_append(files, name, body) ==
    [n \in (DOMAIN files) \cup {name} |->
        IF n = name
        THEN (IF name \in DOMAIN files THEN files[name] ELSE <<>>) \o <<body>>
        ELSE files[n]]

\* open(path, 'wb') and f.write(r.content) (lines 67-68 and 75-76)
WriteFile(files, name, body) ==
    [n \in (DOMAIN files) \cup {name} |-> IF n = name THEN <<body>> ELSE files[n]]

\* the local data directory before the first call
FsInits ==
    { [root |-> FALSE, rego |-> FALSE, files |-> <<>>],
      [root |-> TRUE, rego |-> FALSE, files |-> <<>>],
      [root |-> TRUE, rego |-> TRUE, files |-> WriteFile(<<>>, F_0510, OldBody)] }

NoPrev == [set |-> FALSE, day |-> NoDay, station |-> <<>>, minute |-> TRUE,
           pc |-> "idle", reqs |-> <<>>, resps |-> <<>>, files |-> <<>>]

\* download is entered: lines 48-51.  dl_prev records the call before this one
\* (its arguments, requests, responses and outcome) and the local files now.
DlCall(day, station, download_minute) ==
    /\ dl_pc \in {"idle", "done", "raised"}
    /\ dl_calls < MaxCalls
    /\ dl_calls' = dl_calls + 1
    /\ dl_prev' = [set |-> dl_calls > 0, day |-> dl_day, station |-> dl_station,
                   minute |-> dl_minute, pc |-> dl_pc, reqs |-> dl_reqs,
                   resps |-> dl_resps, files |-> fs_files]
    /\ dl_day' = NormalizeDay(day)
    /\ dl_station' = station
    /\ dl_minute' = download_minute
    /\ dl_url' = DayUrl(dl_day')
    /\ dl_file_names' = <<>>
    /\ dl_i' = 0
    /\ dl_err' = NoError
    /\ dl_reqs' = <<>>
    /\ dl_resps' = <<>>
    /\ dl_pc' = "station"
    /\ UNCHANGED <<search_vars, im_vars, remote_vars, fs_vars>>

\* line 54 and line 56: the station directory of the day
DlSearchStation(resp) ==
    /\ dl_pc = "station"
    /\ dl_reqs' = Append(dl_reqs, dl_url)
    /\ dl_resps' = Append(dl_resps, resp)
    /\ IF resp.exc
       THEN /\ dl_pc' = "raised"
            /\ dl_err' = ConnectionError
            /\ UNCHANGED dl_url
       ELSE LET station_url ==
                    search_hrefs(dl_url, Anchors(resp, day_listing), Lower(dl_station))
            IN  IF station_url.raised
                THEN /\ dl_pc' = "raised"
                     /\ dl_err' = station_url.err
                     /\ UNCHANGED dl_url
                ELSE /\ dl_pc' = "mkdir"
                     /\ dl_url' = HourUrl(dl_url, station_url.hrefs, dl_day)
                     /\ UNCHANGED dl_err
    /\ UNCHANGED <<search_vars, im_vars, remote_vars, fs_vars, dl_day, dl_station, dl_minute,
                   dl_file_names, dl_i, dl_calls, dl_prev>>

\* lines 59-60: pathlib mkdir() without parents
DlMkdir ==
    /\ dl_pc = "mkdir"
    /\ IF fs_rego
       THEN /\ dl_pc' = "list"
            /\ UNCHANGED <<fs_rego, dl_err>>
       ELSE IF fs_root
            THEN /\ fs_rego' = TRUE
                 /\ dl_pc' = "list"
                 /\ UNCHANGED dl_err
            ELSE /\ dl_pc' = "raised"
                 /\ dl_err' = FileNotFoundError_mkdir
                 /\ UNCHANGED fs_rego
    /\ UNCHANGED <<search_vars, im_vars, remote_vars, fs_root, fs_files, dl_day, dl_station,
                   dl_minute, dl_url, dl_file_names, dl_i, dl_calls, dl_reqs,
                   dl_resps, dl_prev>>

\* line 64 or line 71: the files of the hour directory
DlSearchFiles(resp) ==
    /\ dl_pc = "list"
    /\ dl_reqs' = Append(dl_reqs, dl_url)
    /\ dl_resps' = Append(dl_resps, resp)
    /\ IF resp.exc
       THEN /\ dl_pc' = "raised"
            /\ dl_err' = ConnectionError
            /\ UNCHANGED <<dl_file_names, dl_i>>
       ELSE LET file_names ==
                    search_hrefs(dl_url, Anchors(resp, hour_listing),
                                 FilePattern(dl_day, dl_minute))
            IN  IF file_names.raised
                THEN /\ dl_pc' = "raised"
                     /\ dl_err' = file_names.err
                     /\ UNCHANGED <<dl_file_names, dl_i>>
                ELSE /\ dl_pc' = "fetch"
                     /\ dl_file_names' = file_names.hrefs
                     /\ dl_i' = 1
                     /\ UNCHANGED dl_err
    /\ UNCHANGED <<search_vars, im_vars, remote_vars, fs_vars, dl_day, dl_station, dl_minute,
                   dl_url, dl_calls, dl_prev>>

\* lines 66-68, or one round of the loop of lines 73-76
DlFetch(resp) ==
    /\ dl_pc = "fetch"
    /\ LET targets == FetchTargets(dl_file_names, dl_minute)
           file_name == targets[dl_i]
       IN  /\ dl_i <= Len(targets)
           /\ dl_reqs' = Append(dl_reqs, dl_url \o file_name)
           /\ dl_resps' = Append(dl_resps, resp)
           /\ IF resp.exc
              THEN /\ dl_pc' = "raised"
                   /\ dl_err' = ConnectionError
                   /\ UNCHANGED <<fs_files, dl_i>>
              ELSE /\ fs_files' = WriteFile(fs_files, file_name,
                                            Body(resp, dl_url \o file_name))
                   /\ dl_i' = dl_i + 1
                   /\ dl_pc' = IF dl_i = Len(targets) THEN "done" ELSE "fetch"
                   /\ UNCHANGED dl_err
    /\ UNCHANGED <<search_vars, im_vars, remote_vars, fs_root, fs_rego, dl_day, dl_station,
                   dl_minute, dl_url, dl_file_names, dl_calls, dl_prev>>

(***************************************************************************)
(* Imager (imager.py).                                                     *)
(*                                                                         *)
(* A time is a number of minutes since midnight of the day; a time range   *)
(* is a pair of times and None is the empty tuple.  get_frames, load_cal,  *)
(* _validate_time_range and the station table are not part of imager.py:   *)
(* an outcome of get_frames or load_cal is an input of the step that calls *)
(* it.  self.data is the sequence of its items in insertion order.         *)
(***************************************************************************)
S_THEMIS ==
    <<"T","H","E","M","I","S">>
S_themis ==
    <<"t","h","e","m","i","s">>
S_REGO ==
    <<"R","E","G","O">>
S_abc ==
    <<"a","b","c">>
S_GILL ==
    <<"G","I","L","L">>
S_RANK ==
    <<"R","A","N","K">>
S_rank ==
    <<"r","a","n","k">>
STR_gill_rank ==
    <<"g","i","l","l"," "," ","r","a","n","k">>
NODATA_MSG ==
    <<"A","S","I"," ","d","a","t","a"," ","n","o","t"," ","f","o","u","n","d"," ","f","o","r"," ","s","t","a","t","i","o","n">>
OTHER_MSG ==
    <<"N","o"," ","s","u","c","h"," ","f","i","l","e"," ","o","r"," ","d","i","r","e","c","t","o","r","y">>
CAL_MSG ==
    <<"c","a","l","i","b","r","a","t","i","o","n"," ","f","i","l","e"," ","n","o","t"," ","f","o","u","n","d">>

\* line 5
supported_arrays == {S_REGO, S_THEMIS}

None == <<>>
\* 07:39 to 07:40: one hour
TR_A == <<459, 460>>
\* 04:57 to 05:02: two hours
TR_B == <<297, 302>>
TimeRanges == {TR_A, TR_B}

StationsNone == [kind |-> "none", str |-> <<>>, list |-> <<>>]
StationsStr(text) == [kind |-> "str", str |-> text, list |-> <<>>]
StationsList(l) == [kind |-> "list", str |-> <<>>, list |-> l]

ArrayInputs == {S_themis, S_REGO, S_abc}
StationInputs ==
    { StationsNone, StationsStr(STR_gill_rank), StationsStr(S_rank),
      StationsList(<<S_rank, S_GILL>>) }

\* asilib/data/asi_stations.csv restricted to one array (lines 231-233)
ArrayStations(array) ==
    IF array = S_THEMIS THEN <<S_GILL, S_RANK>>
    ELSE IF array = S_REGO THEN <<S_LUCK>>
    ELSE <<>>

\* asilib.io.load._validate_time_range on a pair of datetimes (line 65)
ValidateTimeRange(time_range) == time_range

\* the errors a call can end with
AssertionError == [type |-> "AssertionError", msg |-> <<>>]
AttributeError == [type |-> "AttributeError", msg |-> <<>>]
TypeError == [type |-> "TypeError", msg |-> <<>>]
StationNoData(station) ==
    [type |-> "FileNotFoundError", msg |-> NODATA_MSG \o <<" ">> \o station]
OtherFileNotFound == [type |-> "FileNotFoundError", msg |-> OTHER_MSG]
DirectoryNotFound == NotADirectoryError(BASE_URL, <<>>)
CalNotFound == [type |-> "FileNotFoundError", msg |-> CAL_MSG]

\* what get_frames(time_range, array, station) can do: return the times of
\* the frames (within the range), or raise
GetFramesErrors(station) ==
    { [raised |-> TRUE, times |-> <<>>, err |-> e] :
        e \in {StationNoData(station), OtherFileNotFound, DirectoryNotFound,
               ConnectionError} }
GetFramesOutcomes(time_range, station) ==
    IF time_range = None
    THEN GetFramesErrors(station)
    ELSE GetFramesErrors(station) \cup
         { [raised |-> FALSE, times |-> ts, err |-> NoError] :
             ts \in {<<time_range[1]>>, <<time_range[1], time_range[2]>>} }

AllGetFramesOutcomes ==
    UNION { GetFramesOutcomes(tr, st) :
              tr \in TimeRanges \cup {None}, st \in {S_GILL, S_RANK, S_LUCK} }

\* what load_cal(array, station) can do
LoadCalOutcomes ==
    { [raised |-> FALSE, err |-> NoError], [raised |-> TRUE, err |-> CalNotFound] }

\* str.split()
RECURSIVE SplitAcc(_, _, _)
SplitAcc(rest, cur, out) ==
    IF rest = <<>> THEN (IF cur = <<>> THEN out ELSE Append(out, cur))
    ELSE IF Head(rest) = " "
         THEN SplitAcc(Tail(rest), <<>>, IF cur = <<>> THEN out ELSE Append(out, cur))
         ELSE SplitAcc(Tail(rest), Append(cur, Head(rest)), out)
Split(text) == SplitAcc(text, <<>>, <<>>)

\* _check_time_range_exists raises (line 268)
TimeRangeMissing(time_range, attrs) ==
    (time_range = None) /\ ("time_range" \notin attrs)

\* an except clause that skips every FileNotFoundError
IsStationNoData_any(err) == err.type = "FileNotFoundError"

\* the except clause of lines 128-130: the error is caught and the station skipped
IsStationNoData(err) ==
    err.type = "FileNotFoundError" /\ StrIn(NODATA_MSG, err.msg)

\* self.stations after the branch of lines 122, 140-144 or 160-162
NormalizedStations(stations) ==
    IF stations.kind = "none" THEN stations
    ELSE IF stations.kind = "str" THEN StationsList(Split(Upper(stations.str)))
    ELSE StationsList([k \in 1..Len(stations.list) |-> Upper(stations.list[k])])

\* the stations the loop iterates (lines 124, 146, 164)
IterStations(stations, array_attributes) ==
    IF stations.kind = "none" THEN array_attributes
    ELSE NormalizedStations(stations).list

\* self.data[station] = {...} (lines 135, 156, 174)
DictSet(data, station, times) ==
    IF \E k \in 1..Len(data) : data[k].station = station
    THEN [k \in 1..Len(data) |->
            IF data[k].station = station
            THEN [station |-> station, times |-> times] ELSE data[k]]
    ELSE Append(data, [station |-> station, times |-> times])

\* datetime.replace(minute=0, second=0, microsecond=0)
HourOf(t) == t - (t % 60)

\* pd.date_range(start, end, freq='H')
DateRange(start, end) ==
    IF start > end THEN <<>>
    ELSE [k \in 1..((end - start) \div 60 + 1) |-> start + 60 * (k - 1)]

SeqRange(q) == {q[k] : k \in 1..Len(q)}

NoTable == [cols |-> <<>>, rows |-> <<>>]

\* pd.DataFrame(index=..., columns=...) then replace(np.nan, '-') (lines 178-180);
\* index=None gives a frame without rows
NewTable(stations, cols) ==
    LET index == IF stations.kind = "none" THEN <<>> ELSE stations.list
    IN  [cols |-> cols,
         rows |-> [k \in 1..Len(index) |->
                     [label |-> index[k], cells |-> [h \in SeqRange(cols) |-> "-"]]]]

\* data_availability.loc[station, unique_hours] = 'Loaded' (line 185): every row
\* of that label is set; a label that is not in the index is appended as a
\* new row whose other cells are NaN
LocSetLoaded(table, station, hours) ==
    IF \E k \in 1..Len(table.rows) : table.rows[k].label = station
    THEN [table EXCEPT !.rows =
            [k \in 1..Len(table.rows) |->
                IF table.rows[k].label = station
                THEN [label |-> station,
                      cells |-> [h \in SeqRange(table.cols) |->
                                   IF h \in hours THEN "Loaded"
                                   ELSE table.rows[k].cells[h]]]
                ELSE table.rows[k]]]
    ELSE [table EXCEPT !.rows =
            Append(table.rows,
                   [label |-> station,
                    cells |-> [h \in SeqRange(table.cols) |->
                                 IF h \in hours THEN "Loaded" ELSE "NaN"]])]

\* the loop of lines 182-185
RECURSIVE MarkLoaded(_, _)
MarkLoaded(table, data) ==
    IF data = <<>> THEN table
    ELSE MarkLoaded(
            LocSetLoaded(table, Head(data).station,
                         {HourOf(Head(data).times[k]) : k \in 1..Len(Head(data).times)}),
            Tail(data))

\* lines 176-185
BuildAvailability(time_range, stations, data) ==
    MarkLoaded(
        NewTable(stations, DateRange(HourOf(time_range[1]), HourOf(time_range[2]))),
        data)

\* Imager.__init__ (lines 47-69)
ImConstruct(array, stations, time_range) ==
    /\ im_pc = "none"
    /\ im_method = "none"
    /\ im_method' = "__init__"
    /\ im_array' = Upper(array)
    /\ im_stations' = stations
    /\ im_time_range' = IF time_range = None THEN None ELSE ValidateTimeRange(time_range)
    /\ im_array_attributes' = ArrayStations(im_array')
    /\ im_attrs' = {"array", "stations", "time_range", "array_attributes"}
    /\ IF im_array' \in supported_arrays
       THEN /\ im_pc' = "idle"
            /\ im_result' = "returned"
            /\ UNCHANGED im_err
       ELSE /\ im_pc' = "none"
            /\ im_result' = "raised"
            /\ im_err' = AssertionError
    /\ UNCHANGED <<search_vars, dl_vars, im_data, im_da, im_arg, im_iter, im_i,
                   im_calls, im_gf>>

\* Imager.download (lines 71-103)
ImDownload(time_range) ==
    /\ im_pc = "idle"
    /\ im_calls < MaxImCalls
    /\ im_calls' = im_calls + 1
    /\ im_method' = "download"
    /\ im_arg' = time_range
    /\ im_gf' = <<>>
    /\ IF TimeRangeMissing(time_range, im_attrs)
       THEN /\ im_result' = "raised"
            /\ im_err' = AttributeError
       ELSE /\ im_result' = "returned"
            /\ im_err' = NoError
    /\ UNCHANGED <<search_vars, dl_vars, im_pc, im_attrs, im_array, im_array_attributes,
                   im_stations, im_time_range, im_data, im_da, im_iter, im_i>>

\* Imager.load up to the station loop (lines 118-124, 140-146, 160-164)
ImLoad(time_range) ==
    /\ im_pc = "idle"
    /\ im_calls < MaxImCalls
    /\ im_calls' = im_calls + 1
    /\ im_method' = "load"
    /\ im_arg' = time_range
    /\ im_gf' = <<>>
    /\ IF TimeRangeMissing(time_range, im_attrs)
       THEN /\ im_result' = "raised"
            /\ im_err' = AttributeError
            /\ UNCHANGED <<im_pc, im_attrs, im_stations, im_data, im_iter, im_i>>
       ELSE /\ im_result' = "running"
            /\ im_err' = NoError
            /\ im_data' = <<>>
            /\ im_attrs' = im_attrs \cup {"data"}
            /\ im_stations' = NormalizedStations(im_stations)
            /\ im_iter' = IterStations(im_stations, im_array_attributes)
            /\ im_i' = 1
            /\ im_pc' = IF im_iter' = <<>> THEN "table" ELSE "loop"
    /\ UNCHANGED <<search_vars, dl_vars, im_array, im_array_attributes,
                   im_time_range, im_da>>

\* one round of the station loop (lines 126-135, 147-156, 165-174)
ImLoadStation(frames, cal) ==
    /\ im_pc = "loop"
    /\ LET station == im_iter[im_i]
           next_pc == IF im_i = Len(im_iter) THEN "table" ELSE "loop"
       IN  /\ frames \in GetFramesOutcomes(im_time_range, station)
           /\ IF frames.raised
              THEN /\ im_gf' = Append(im_gf, [time_range |-> im_time_range,
                                              array |-> im_array, station |-> station,
                                              out |-> frames, cal |-> "none"])
                   /\ IF IsStationNoData(frames.err)
                      THEN /\ im_i' = im_i + 1
                           /\ im_pc' = next_pc
                           /\ UNCHANGED <<im_result, im_err, im_data>>
                      ELSE /\ im_pc' = "idle"
                           /\ im_result' = "raised"
                           /\ im_err' = frames.err
                           /\ UNCHANGED <<im_i, im_data>>
              ELSE /\ im_gf' = Append(im_gf, [time_range |-> im_time_range,
                                              array |-> im_array, station |-> station,
                                              out |-> frames,
                                              cal |-> IF cal.raised THEN "raised" ELSE "ok"])
                   /\ IF cal.raised
                      THEN /\ im_pc' = "idle"
                           /\ im_result' = "raised"
                           /\ im_err' = cal.err
                           /\ UNCHANGED <<im_i, im_data>>
                      ELSE /\ im_data' = DictSet(im_data, station, frames.times)
                           /\ im_i' = im_i + 1
                           /\ im_pc' = next_pc
                           /\ UNCHANGED <<im_result, im_err>>
    /\ UNCHANGED <<search_vars, dl_vars, im_attrs, im_array, im_array_attributes,
                   im_stations, im_time_range, im_da, im_method, im_arg, im_iter,
                   im_calls>>

\* the availability table (lines 176-187); None[0] raises TypeError
ImLoadTable ==
    /\ im_pc = "table"
    /\ im_pc' = "idle"
    /\ IF im_time_range = None
       THEN /\ im_result' = "raised"
            /\ im_err' = TypeError
            /\ UNCHANGED <<im_da, im_attrs>>
       ELSE /\ im_result' = "returned"
            /\ im_da' = BuildAvailability(im_time_range, im_stations, im_data)
            /\ im_attrs' = im_attrs \cup {"data_availability_dates", "data_availability"}
            /\ UNCHANGED im_err
    /\ UNCHANGED <<search_vars, dl_vars, im_array, im_array_attributes, im_stations,
                   im_time_range, im_data, im_method, im_arg, im_iter, im_i,
                   im_calls, im_gf>>

(***************************************************************************)
(* Initial values of the parts a specification does not use.               *)
(***************************************************************************)
SearchIdle ==
    /\ s_pc = "idle"
    /\ s_url = <<>>
    /\ s_anchors = <<>>
    /\ s_pattern = <<>>
    /\ s_out = [raised |-> FALSE, hrefs |-> <<>>, err |-> NoError]

DownloadIdle ==
    /\ dl_pc = "idle"
    /\ dl_day = NoDay
    /\ dl_station = <<>>
    /\ dl_minute = TRUE
    /\ dl_url = <<>>
    /\ dl_file_names = <<>>
    /\ dl_i = 0
    /\ dl_err = NoError
    /\ dl_calls = 0
    /\ dl_reqs = <<>>
    /\ dl_resps = <<>>
    /\ dl_prev = NoPrev

ImagerIdle ==
    /\ im_pc = "none"
    /\ im_attrs = {}
    /\ im_array = <<>>
    /\ im_array_attributes = <<>>
    /\ im_stations = StationsNone
    /\ im_time_range = None
    /\ im_data = <<>>
    /\ im_da = NoTable
    /\ im_method = "none"
    /\ im_arg = None
    /\ im_iter = <<>>
    /\ im_i = 0
    /\ im_result = "none"
    /\ im_err = NoError
    /\ im_calls = 0
    /\ im_gf = <<>>

RemoteIdle ==
    /\ day_listing = <<>>
    /\ hour_listing = <<>>

FsIdle ==
    /\ fs_root = TRUE
    /\ fs_rego = TRUE
    /\ fs_files = <<>>

(***************************************************************************)
(* SpecDownload: download called for one bucket (day, station,             *)
(* granularity), and then called again for that bucket, against one remote *)
(* archive.                                                                *)
(***************************************************************************)
DownloadInit ==
    /\ SearchIdle
    /\ ImagerIdle
    /\ DownloadIdle
    /\ day_listing \in DayListings
    /\ hour_listing \in HourListings
    /\ \E fs \in FsInits :
          /\ fs_root = fs.root
          /\ fs_rego = fs.rego
          /\ fs_files = fs.files

DownloadNext ==
    \/ \E day \in DayInputs, station \in Stations, download_minute \in BOOLEAN :
          /\ dl_calls > 0 =>
                /\ NormalizeDay(day) = dl_day
                /\ station = dl_station
                /\ download_minute = dl_minute
          /\ DlCall(day, station, download_minute)
    \/ \E resp \in Responses : DlSearchStation(resp)
    \/ DlMkdir
    \/ \E resp \in Responses : DlSearchFiles(resp)
    \/ \E resp \in Responses : DlFetch(resp)

SpecDownload == DownloadInit /\ [][DownloadNext]_vars

(***************************************************************************)
(* SpecImager: one Imager, constructed and then used for several calls.    *)
(***************************************************************************)
ImagerInit ==
    /\ SearchIdle /\ DownloadIdle /\ RemoteIdle /\ FsIdle
    /\ ImagerIdle

ImagerNext ==
    \/ \E array \in ArrayInputs, stations \in StationInputs,
          time_range \in TimeRanges \cup {None} :
          ImConstruct(array, stations, time_range)
    \/ \E time_range \in TimeRanges \cup {None} : ImDownload(time_range)
    \/ \E time_range \in TimeRanges \cup {None} : ImLoad(time_range)
    \/ \E frames \in AllGetFramesOutcomes, cal \in LoadCalOutcomes :
          ImLoadStation(frames, cal)
    \/ ImLoadTable

SpecImager == ImagerInit /\ [][ImagerNext]_vars

(***************************************************************************)
(* SpecSearch: one call of search_hrefs on any listing and any pattern.    *)
(***************************************************************************)
SearchInit ==
    /\ s_pc = "call"
    /\ s_url \in SearchUrls
    /\ s_anchors \in SeqUpTo(SearchAnchors, MaxAnchors)
    /\ s_pattern \in SearchPatterns
    /\ s_out = [raised |-> FALSE, hrefs |-> <<>>, err |-> NoError]
    /\ DownloadIdle /\ RemoteIdle /\ FsIdle /\ ImagerIdle

SearchCall ==
    /\ s_pc = "call"
    /\ s_out' = search_hrefs(s_url, s_anchors, s_pattern)
    /\ s_pc' = IF s_out'.raised THEN "raised" ELSE "returned"
    /\ UNCHANGED <<s_url, s_anchors, s_pattern, dl_vars, im_vars>>

SearchNext == SearchCall

SpecSearch == SearchInit /\ [][SearchNext]_vars

(***************************************************************************)
(* C1: search_hrefs either returns a non-empty list or raises              *)
(* NotADirectoryError whose message carries the url and the pattern; when  *)
(* no entry other than '../' contains the pattern it raises and never      *)
(* returns an empty list.                                                  *)
(***************************************************************************)
\* some entry other than '../' contains the pattern, ignoring case
SomeEntryContains(anchors, pattern) ==
    \E k \in 1..Len(anchors) :
        /\ anchors[k] # PARENT
        /\ \E off \in 0..(Len(anchors[k]) - Len(pattern)) :
              \A j \in 1..Len(pattern) :
                  LowerChar(anchors[k][off + j]) = LowerChar(pattern[j])

C1_RaisesOrNonEmpty ==
    /\ s_pc = "returned" => (~s_out.raised /\ Len(s_out.hrefs) > 0)
    /\ s_pc = "raised" =>
          /\ s_out.raised
          /\ s_out.err.type = "NotADirectoryError"
          /\ StrIn(MSG_A \o s_url \o MSG_B, s_out.err.msg)
          /\ StrIn(MSG_B \o s_pattern \o MSG_C, s_out.err.msg)
    /\ (s_pc \in {"returned", "raised"} /\ ~SomeEntryContains(s_anchors, s_pattern))
          => s_pc = "raised"

\* a call on a listing that holds only '../', searched for "/", has raised
C1_Witness ==
    /\ s_pc = "raised"
    /\ s_anchors = <<PARENT>>
    /\ s_pattern = <<"/">>

(***************************************************************************)
(* C2: when search_hrefs returns, the result is exactly the listing's      *)
(* entries, in listing order, that are not '../' and contain the pattern   *)
(* ignoring case; '../' is never in the result, and with the empty pattern *)
(* the result is every entry except '../'.                                 *)
(***************************************************************************)
\* the positions of the listing the result must keep
KeptPositions(anchors, pattern) ==
    {k \in 1..Len(anchors) : SomeEntryContains(<<anchors[k]>>, pattern)}

\* the n-th smallest element of a set of positions
NthPosition(P, n) == CHOOSE k \in P : Cardinality({j \in P : j < k}) = n - 1

C2_ExactSubsequence ==
    s_pc = "returned" =>
        LET P == KeptPositions(s_anchors, s_pattern)
        IN  /\ Len(s_out.hrefs) = Cardinality(P)
            /\ \A n \in 1..Len(s_out.hrefs) :
                  s_out.hrefs[n] = s_anchors[NthPosition(P, n)]
            /\ \A n \in 1..Len(s_out.hrefs) : s_out.hrefs[n] # PARENT
            /\ s_pattern = <<>> =>
                  Len(s_out.hrefs) =
                      Cardinality({k \in 1..Len(s_anchors) : s_anchors[k] # PARENT})

\* a mixed-case pattern kept two entries of different case, in listing order,
\* and dropped the '../' between them
C2_Witness ==
    /\ s_pc = "returned"
    /\ s_pattern = <<"L","u","c","K">>
    /\ s_anchors = <<E_luck_dir, PARENT, E_LUCK_dir>>
    /\ s_out.hrefs = <<E_luck_dir, E_LUCK_dir>>

(***************************************************************************)
(* Helpers of the download claims.                                         *)
(***************************************************************************)
\* the current call is for the bucket of the call before it
SameBucket ==
    /\ dl_prev.set
    /\ dl_day = dl_prev.day
    /\ Lower(dl_station) = Lower(dl_prev.station)
    /\ dl_minute = dl_prev.minute

\* the call has ended, by returning or by raising
DlEnded == dl_pc \in {"done", "raised"}

\* the 'YYYYMMDD_HHMM' stamps of the two days of DayInputs, written out
STAMP_0510 ==
    <<"2","0","1","7","0","4","1","3","_","0","5","1","0">>
STAMP_0511 ==
    <<"2","0","1","7","0","4","1","3","_","0","5","1","1">>
D_0511 == [year |-> 2017, month |-> 4, day |-> 13, hour |-> 5, minute |-> 11]
ExpectedStamp ==
    IF dl_day = D_0510 THEN STAMP_0510
    ELSE IF dl_day = D_0511 THEN STAMP_0511
    ELSE <<>>

\* the url of the hour directory, written out for the luck_rego-649 station
HOUR_URL_649 ==
    BASE_URL \o <<"2","0","1","7","/","0","4","/","1","3","/">> \o E_luck_dir
             \o <<"u","t","0","5","/">>

\* the entries of the hour directory, without '../'
HourEntries == SelectSeq(hour_listing, LAMBDA e : e # PARENT)

\* the entries of the hour directory that carry the stamp of the day
StampedEntries ==
    SelectSeq(hour_listing,
              LAMBDA e : e # PARENT /\ Len(e) >= 13 /\ SubSeq(e, 1, 13) = ExpectedStamp)

\* the names of the local files that differ from the start of the call
ChangedFiles ==
    {n \in DOMAIN fs_files : n \notin DOMAIN dl_prev.files \/ fs_files[n] # dl_prev.files[n]}

(***************************************************************************)
(* C3 as stated: a second download of the same bucket, after a first one   *)
(* that returned, issues no network request, and the local files after it  *)
(* equal the local files after the first call.                             *)
(***************************************************************************)
C3_NoSecondRequest ==
    (dl_calls >= 2 /\ SameBucket /\ dl_prev.pc = "done") =>
        /\ dl_reqs = <<>>
        /\ DlEnded => fs_files = dl_prev.files

(***************************************************************************)
(* C3 amended: a second download of the same bucket, after a first one     *)
(* that returned, issues the network requests again: the same urls in the  *)
(* same order as the first call, and all of them when it returns (download *)
(* has no file-exists check).  It creates no new local file; a file it has *)
(* not fetched again is as the first call left it, and a file it has       *)
(* fetched again holds the body of the second call's last answer for it,   *)
(* whatever its status.  So the local files after the second call equal    *)
(* the local files after the first whenever every answered fetch of both   *)
(* calls was a success.                                                    *)
(***************************************************************************)
\* the requests of the current call that fetched the file and were answered
AnsweredFetches(n) ==
    {k \in 3..Len(dl_reqs) : dl_reqs[k] = dl_reqs[2] \o n /\ ~dl_resps[k].exc}

\* every answered file fetch of the sequence of responses was a success
FetchesSucceeded(resps) ==
    \A k \in 3..Len(resps) : resps[k].exc \/ resps[k].status = 200

C3_RepeatsAndRewrites ==
    (dl_calls >= 2 /\ SameBucket /\ dl_prev.pc = "done") =>
        /\ dl_pc # "station" => Len(dl_reqs) >= 1
        /\ Len(dl_reqs) <= Len(dl_prev.reqs)
        /\ \A k \in 1..Len(dl_reqs) : dl_reqs[k] = dl_prev.reqs[k]
        /\ dl_pc = "done" => dl_reqs = dl_prev.reqs
        /\ DOMAIN fs_files = DOMAIN dl_prev.files
        /\ \A n \in DOMAIN fs_files :
              IF AnsweredFetches(n) = {}
              THEN fs_files[n] = dl_prev.files[n]
              ELSE LET last == CHOOSE k \in AnsweredFetches(n) :
                                   \A j \in AnsweredFetches(n) : j <= k
                   IN  fs_files[n] = <<[status |-> dl_resps[last].status,
                                        url |-> dl_reqs[last]]>>
        /\ (FetchesSucceeded(dl_prev.resps) /\ FetchesSucceeded(dl_resps))
              => fs_files = dl_prev.files

\* a second hour download of the same bucket returned after the same four
\* requests: the first file got the same body again and is unchanged, the
\* second file held a 404 page from the first call and was rewritten
C3_Witness ==
    /\ dl_calls = 2 /\ SameBucket /\ dl_prev.pc = "done" /\ dl_pc = "done"
    /\ ~dl_minute
    /\ hour_listing = <<PARENT, F_0510, F_0511>>
    /\ Len(dl_reqs) = 4 /\ dl_reqs = dl_prev.reqs
    /\ dl_prev.resps[4] = NotFound /\ dl_resps[4] = OK
    /\ fs_files[F_0510] = dl_prev.files[F_0510]
    /\ fs_files[F_0511] # dl_prev.files[F_0511]

(***************************************************************************)
(* C4 as stated: at every point of a download, every local file under the  *)
(* mission subdirectory holds exactly the full body of a successful fetch  *)
(* (or is a file that was there before); a failed or non-success fetch     *)
(* leaves no file.                                                         *)
(***************************************************************************)
C4_OnlySuccessfulBodies ==
    \A n \in DOMAIN fs_files :
        /\ Len(fs_files[n]) = 1
        /\ fs_files[n][1].status = 200

(***************************************************************************)
(* C5: a minute download lists the station's hour directory for the day's  *)
(* 'YYYYMMDD_HHMM' stamp and fetches and writes exactly one file: the      *)
(* first entry, in listing order, that carries the stamp.                  *)
(***************************************************************************)
C5_MinuteFetchesFirstMatch ==
    (dl_minute /\ dl_pc # "idle") =>
        /\ Len(dl_reqs) <= 3
        /\ dl_pc = "fetch" => dl_file_names = StampedEntries
        /\ Len(dl_reqs) = 3 =>
              /\ StampedEntries # <<>>
              /\ dl_reqs[3] = dl_reqs[2] \o StampedEntries[1]
              /\ ChangedFiles \subseteq {StampedEntries[1]}
              /\ dl_pc = "done" => StampedEntries[1] \in DOMAIN fs_files
        /\ Len(dl_reqs) < 3 => ChangedFiles = {}
        /\ dl_pc = "done" => Len(dl_reqs) = 3
        /\ (Len(dl_reqs) >= 2 /\ day_listing[2] = E_gill_dir) => dl_reqs[2] = HOUR_URL_649

\* a minute download for 2017-04-13 05:10 found two stamped files and wrote
\* only the one listed first
C5_Witness ==
    /\ dl_minute /\ dl_pc = "done" /\ dl_calls = 1
    /\ dl_day = D_0510
    /\ hour_listing = <<PARENT, F_0510b, F_0510>>
    /\ dl_reqs[3] = HOUR_URL_649 \o F_0510b
    /\ DOMAIN fs_files = {F_0510b}

(***************************************************************************)
(* C6: an hour download that returns has fetched every entry of the hour   *)
(* directory (all but '../') exactly once, one after another in listing    *)
(* order, and a local file named after each entry exists.                  *)
(***************************************************************************)
C6_HourFetchesAll ==
    (~dl_minute /\ dl_pc = "done") =>
        /\ Len(dl_reqs) = 2 + Len(HourEntries)
        /\ \A k \in 1..Len(HourEntries) : dl_reqs[2 + k] = dl_reqs[2] \o HourEntries[k]
        /\ \A k \in 1..Len(HourEntries) : HourEntries[k] \in DOMAIN fs_files
        /\ fs_rego

\* an hour download returned after fetching two different files in listing order
C6_Witness ==
    /\ ~dl_minute /\ dl_pc = "done" /\ dl_calls = 1
    /\ hour_listing = <<PARENT, F_0511, F_0510>>
    /\ dl_reqs[3] = HOUR_URL_649 \o F_0511
    /\ dl_reqs[4] = HOUR_URL_649 \o F_0510
    /\ DOMAIN fs_files = {F_0510, F_0511}

(***************************************************************************)
(* Helpers of the Imager claims.                                           *)
(***************************************************************************)
\* the get_frames call raised Station-No-Data: a FileNotFoundError whose
\* message holds 'ASI data not found for station' at some offset
RaisedNoData(call) ==
    /\ call.out.raised
    /\ call.out.err.type = "FileNotFoundError"
    /\ \E off \in 0..(Len(call.out.err.msg) - Len(NODATA_MSG)) :
          \A j \in 1..Len(NODATA_MSG) : call.out.err.msg[off + j] = NODATA_MSG[j]

\* the get_frames call, or the load_cal call after it, raised something else
RaisedOther(call) ==
    \/ call.out.raised /\ ~RaisedNoData(call)
    \/ call.cal = "raised"

\* the error the round of that call ended with
ErrorOf(call) == IF call.out.raised THEN call.out.err ELSE CalNotFound

\* the stations whose round stored frames
StoredStations == {im_gf[k].station : k \in {j \in 1..Len(im_gf) : im_gf[j].cal = "ok"}}

\* a load() call is running or was the last call
InLoad == im_method = "load" /\ im_result \in {"running", "returned", "raised"}

\* the row of the availability table for a station, if any
RowsOf(station) == {k \in 1..Len(im_da.rows) : im_da.rows[k].label = station}

(***************************************************************************)
(* C7: in load(), a station whose get_frames raises Station-No-Data is     *)
(* skipped, gets no entry in data, and the loop goes on with the next      *)
(* station; any other error (NotADirectoryError, a FileNotFoundError with  *)
(* another message, ...) ends load() at once and is the error raised.      *)
(***************************************************************************)
C7_SkipOnlyStationNoData ==
    (InLoad /\ im_err.type # "AttributeError") =>
        /\ \A k \in 1..Len(im_gf) :
              /\ im_gf[k].station = im_iter[k]
              /\ RaisedNoData(im_gf[k]) =>
                    \/ k < Len(im_gf)
                    \/ im_pc = "loop" /\ im_i = k + 1 /\ k < Len(im_iter)
                    \/ im_pc = "table" /\ k = Len(im_iter)
                    \/ im_pc = "idle" /\ k = Len(im_iter)
                          /\ (im_result = "returned" \/ im_err = TypeError)
              /\ RaisedOther(im_gf[k]) =>
                    /\ k = Len(im_gf)
                    /\ im_pc = "idle"
                    /\ im_result = "raised"
                    /\ im_err = ErrorOf(im_gf[k])
        /\ {im_data[k].station : k \in 1..Len(im_data)} = StoredStations
        /\ im_result = "returned" => Len(im_gf) = Len(im_iter)

\* load() returned after GILL raised Station-No-Data and RANK was loaded
C7_Witness ==
    /\ InLoad /\ im_result = "returned"
    /\ Len(im_gf) = 2
    /\ RaisedNoData(im_gf[1]) /\ im_gf[1].station = S_GILL
    /\ im_gf[2].cal = "ok" /\ im_gf[2].station = S_RANK
    /\ Len(im_data) = 1 /\ im_data[1].station = S_RANK

(***************************************************************************)
(* C8 as stated: with stations=None, a one-hour time range and two known   *)
(* stations of which one raises Station-No-Data, load() returns and        *)
(* data_availability has a row for each of the two stations: '-' in the    *)
(* hour of the missing station and 'Loaded' in the hour of the other.      *)
(***************************************************************************)
C8_RowForEachStation ==
    ( /\ InLoad /\ im_pc = "idle"
      /\ im_stations.kind = "none"
      /\ im_time_range = TR_A
      /\ Len(im_iter) = 2 /\ Len(im_gf) = 2
      /\ \E m \in 1..2 : RaisedNoData(im_gf[m]) /\ im_gf[3 - m].cal = "ok" )
    =>
    /\ im_result = "returned"
    /\ \A m \in 1..2 :
          /\ RowsOf(im_iter[m]) # {}
          /\ \A r \in RowsOf(im_iter[m]) :
                im_da.rows[r].cells[HourOf(TR_A[1])] =
                    IF RaisedNoData(im_gf[m]) THEN "-" ELSE "Loaded"

(***************************************************************************)
(* C9 as stated: on an Imager constructed without a time range, download() *)
(* or load() called without a time_range raises AttributeError, and no     *)
(* get_frames call is made.                                                *)
(***************************************************************************)
C9_MissingTimeRangeRaises ==
    ( /\ im_method \in {"download", "load"}
      /\ im_time_range = None
      /\ im_arg = None )
    =>
    /\ im_pc = "idle"
    /\ im_result = "raised"
    /\ im_err = AttributeError
    /\ im_gf = <<>>

(***************************************************************************)
(* C10 as stated: load(time_range=T) calls get_frames for T and builds     *)
(* data_availability over the hours of T.                                  *)
(***************************************************************************)
C10_CallTimeRangeHonoured ==
    (InLoad /\ im_arg # None) =>
        /\ \A k \in 1..Len(im_gf) : im_gf[k].time_range = im_arg
        /\ (im_pc = "idle" /\ im_result = "returned") =>
              im_da.cols = DateRange(HourOf(im_arg[1]), HourOf(im_arg[2]))

(***************************************************************************)
(* Helpers of the claims on data and data_availability.                    *)
(***************************************************************************)
\* load() was the last call and it returned
LoadReturned == im_method = "load" /\ im_pc = "idle" /\ im_result = "returned"

\* data holds a frame of the station in the hour that starts at h
DataHolds(station, h) ==
    \E k \in 1..Len(im_data) :
        /\ im_data[k].station = station
        /\ \E j \in 1..Len(im_data[k].times) :
              /\ im_data[k].times[j] >= h
              /\ im_data[k].times[j] < h + 60

\* the times get_frames returned for the station in the current call
ReturnedTimes(station) ==
    {im_gf[k].out.times : k \in {j \in 1..Len(im_gf) :
                                   im_gf[j].station = station /\ im_gf[j].cal = "ok"}}

(***************************************************************************)
(* C11 as stated: after load() calls that each returned, data holds        *)
(* exactly the stations that returned frames in the last call, with the    *)
(* frames of that call, and every (station, hour) cell of                  *)
(* data_availability is 'Loaded' when data holds a frame of that station   *)
(* in that hour and '-' otherwise.                                         *)
(***************************************************************************)
C11_ReflectsLastLoad ==
    LoadReturned =>
        /\ {im_data[k].station : k \in 1..Len(im_data)} = StoredStations
        /\ \A k \in 1..Len(im_data) :
              ReturnedTimes(im_data[k].station) = {im_data[k].times}
        /\ \A r \in 1..Len(im_da.rows) :
              \A h \in SeqRange(im_da.cols) :
                  im_da.rows[r].cells[h] =
                      IF DataHolds(im_da.rows[r].label, h) THEN "Loaded" ELSE "-"

(***************************************************************************)
(* Helpers of the claim on the local mission subdirectory.                 *)
(***************************************************************************)
\* the current call resolved the station directory and went through the
\* step of lines 59-60: it is listing or fetching files, has returned, or
\* has raised in that step or after it
MkdirActed ==
    \/ dl_pc \in {"list", "fetch", "done"}
    \/ /\ dl_pc = "raised"
       /\ \/ Len(dl_reqs) >= 2
          \/ dl_err.type = "FileNotFoundError"

(***************************************************************************)
(* C12 as stated: once download is past the resolution of the station      *)
(* directory, <data_root>/rego exists, whether it was there before, was    *)
(* absent, or the data root itself was absent; the step that ensures it    *)
(* leaves the files that were already there as they were.                  *)
(***************************************************************************)
C12_SubdirEnsured ==
    MkdirActed =>
        /\ fs_rego
        /\ dl_pc = "list" => fs_files = dl_prev.files

(***************************************************************************)
(* C13 as stated: between the calls on one Imager, also after a load()     *)
(* that a non-skippable error ended part-way through the station loop,     *)
(* whenever data_availability exists a (station, hour) cell is 'Loaded' if *)
(* and only if data holds a frame of that station in that hour.            *)
(***************************************************************************)
C13_DataAndTableAgree ==
    (im_pc = "idle" /\ "data_availability" \in im_attrs) =>
        /\ \A r \in 1..Len(im_da.rows) :
              \A h \in SeqRange(im_da.cols) :
                  (im_da.rows[r].cells[h] = "Loaded") <=> DataHolds(im_da.rows[r].label, h)
        /\ \A k \in 1..Len(im_data) :
              \A h \in SeqRange(im_da.cols) :
                  DataHolds(im_data[k].station, h) =>
                      \E r \in RowsOf(im_data[k].station) :
                          im_da.rows[r].cells[h] = "Loaded"

=============================================================================
